---- MODULE Spec2Model ----
(***************************************************************************)
(* Feed store of the prediction/news feed (src/src/context/PostContext.tsx) *)
(* as a state machine.  The React state of PostProvider is posts, loading,  *)
(* hasMore and page.  fetchMorePosts is a useCallback closure: the values   *)
(* it reads (page, loading, hasMore, posts) are those of the render that    *)
(* created it, held here in view; setX(prev => ...) updaters act on the     *)
(* current state.  Every await splits a handler into steps.                 *)
(* The like button of one rendered item (src/src/components/Post.tsx) and   *)
(* the tables news and news_likes with their trigger (src/unnamed/part_000) *)
(* follow, each with a specification of its own.                            *)
(***************************************************************************)
EXTENDS Integers, Sequences, FiniteSets, Bags, TLC

VARIABLES
    posts,      \* useState<(Post | News)[]>([])
    loading,    \* useState(false)
    hasMore,    \* useState(true)
    page,       \* useState(0)
    view,       \* state values captured by the fetchMorePosts closure in use
    fetching,   \* fetchMorePosts invocations awaiting their two queries
    adding,     \* addPost / addNews invocations awaiting getUser or the insert
    dbPosts,    \* remote table posts, newest row first
    dbNews,     \* remote table news, newest row first
    created,    \* ids of the rows this provider's addPost / addNews inserted
    thrown,     \* the error the last step threw to the caller of its handler
    post,       \* Post component: the post prop
    authUser,   \* Post component: user of useAuth()
    localPost,  \* Post component: useState(post), its likes and isLiked
    shown,      \* Post component: localPost as the handleLike closure in use read it
    liking,     \* handleLike invocations awaiting their delete or insert
    taps,       \* handleLike invocations started: local state before and after each
    news,       \* table news: id of each row |-> its likes column
    news_likes, \* table news_likes: row (news_id, user_id) |-> number of such rows
    sqlstate    \* outcome of the last statement on news_likes

remote == <<dbPosts, dbNews, created>>

feed == <<posts, loading, hasMore, page, view, fetching, adding, remote>>

item == <<post, authUser, localPost, shown, liking, taps>>

server == <<news, news_likes, sqlstate>>

vars == <<feed, thrown, item, server>>

POSTS_PER_PAGE == 20

\* ---------------------------------------------------------------- bounds
MaxFetches == 2     \* fetchMorePosts invocations that pass the guard during a run
MaxInserts == 1     \* addPost / addNews invocations that reach the insert during a run
MaxOddsLen == 3     \* length of the enumerated odds strings

\* Sizes of the two remote tables when the provider mounts.
PostCounts == {0, 10, 15, 20, 25}
NewsCounts == {0, 10}

NoUser == "null"
Users == {NoUser, "u1"}

\* title?: string, left out by a prediction
NoTitle == "undefined"

\* ---------------------------------------------------------------- rows
\* A row of either table as the feed store uses it: id and created_at.  Initial prediction k (k = 1 is the oldest) has id k; initial
\* news k has id base + k, so base 0 makes the ids of the two tables collide.
Decimal(n, d) == [nan |-> FALSE, num |-> n, den |-> d]
NaN == [nan |-> TRUE, num |-> 0, den |-> 1]

Row(i, k, t) == [id |-> i, kind |-> k, created_at |-> t]

NewsIdBases == {0, 100}

InitialTable(kind, base, n) ==
    [j \in 1..n |-> Row(base + (n + 1 - j), kind, 2 * (n + 1 - j))]

Ids(s) == {s[j].id : j \in 1..Len(s)}

Times(s) == {s[j].created_at : j \in 1..Len(s)}

MaxOf(S) == IF S = {} THEN 0 ELSE CHOOSE m \in S : \A x \in S : x <= m

Min(a, b) == IF a < b THEN a ELSE b

\* .range(from, to) on a table ordered by created_at descending.
Range(table, from, to) == SubSeq(table, from + 1, Min(to + 1, Len(table)))

Query(table, p) == Range(table, p * POSTS_PER_PAGE, (p + 1) * POSTS_PER_PAGE - 1)

\* Array.prototype.sort with (a, b) => time(b) - time(a): descending created_at,
\* stable, so rows of equal created_at keep their order of concatenation.
RECURSIVE InsertPos(_, _, _)
InsertPos(x, s, j) ==
    IF j > Len(s) \/ s[j].created_at <= x.created_at THEN j ELSE InsertPos(x, s, j + 1)

InsertDesc(x, s) ==
    LET j == InsertPos(x, s, 1) IN SubSeq(s, 1, j - 1) \o <<x>> \o SubSeq(s, j, Len(s))

RECURSIVE SortDesc(_)
\* The sorted tail is bound once, as a value, before the head is inserted.
SortDesc(s) ==
    IF s = <<>> THEN <<>>
    ELSE CHOOSE r \in {InsertDesc(Head(s), sorted) : sorted \in {SortDesc(Tail(s))}} : TRUE

\* allContent.filter(newItem => !posts.some(existingItem => existingItem.id === newItem.id))
UniqueContent(allContent, held) ==
    SelectSeq(allContent, LAMBDA newItem : newItem.id \notin Ids(held))

HasMoreAtLeast(n) == n >= POSTS_PER_PAGE

\* setHasMore(uniqueContent.length === POSTS_PER_PAGE)
HasMoreAfter(n) == n = POSTS_PER_PAGE

RemoveAt(s, i) == SubSeq(s, 1, i - 1) \o SubSeq(s, i + 1, Len(s))

\* ---------------------------------------------------------------- odds
\* A string is a sequence of one-character strings.  The inputs use digits,
\* separators, signs, blanks and letters other than those of an exponent or of
\* "Infinity".
Digits == {"0", "1", "2", "3", "4", "5", "6", "7", "8", "9"}

DigitVal(c) == CHOOSE v \in 0..9 : <<"0", "1", "2", "3", "4", "5", "6", "7", "8", "9">>[v + 1] = c

RECURSIVE Find(_, _, _)
Find(s, c, j) == IF j > Len(s) THEN 0 ELSE IF s[j] = c THEN j ELSE Find(s, c, j + 1)

\* String.prototype.replace with a string pattern: the first occurrence only.
Replace(s, c, d) ==
    LET j == Find(s, c, 1) IN IF j = 0 THEN s ELSE [s EXCEPT ![j] = d]

RECURSIVE Run(_, _, _)
Run(s, S, j) == IF j <= Len(s) /\ s[j] \in S THEN Run(s, S, j + 1) ELSE j

RECURSIVE ToNat(_)
ToNat(s) == IF s = <<>> THEN 0 ELSE 10 * ToNat(SubSeq(s, 1, Len(s) - 1)) + DigitVal(s[Len(s)])

RECURSIVE Pow10(_)
Pow10(n) == IF n = 0 THEN 1 ELSE 10 * Pow10(n - 1)

\* parseFloat: leading blanks, a sign, digits, a period, digits; what follows the
\* longest such prefix is ignored, and a prefix without any digit is NaN.
ParseFloat(s) ==
    LET a == Run(s, {" "}, 1)
        signed == a <= Len(s) /\ s[a] \in {"+", "-"}
        b == IF signed THEN a + 1 ELSE a
        c == Run(s, Digits, b)
        dot == c <= Len(s) /\ s[c] = "."
        d == IF dot THEN Run(s, Digits, c + 1) ELSE c
        int == SubSeq(s, b, c - 1)
        frac == IF dot THEN SubSeq(s, c + 1, d - 1) ELSE <<>>
        sign == IF signed /\ s[a] = "-" THEN -1 ELSE 1
    IN  IF int = <<>> /\ frac = <<>>
        THEN NaN
        ELSE Decimal(sign * (ToNat(int) * Pow10(Len(frac)) + ToNat(frac)), Pow10(Len(frac)))

OddsStringUnreplaced(totalOdds) == IF totalOdds = <<>> THEN <<"0">> ELSE totalOdds

\* (newPost.totalOdds || '0').replace(',', '.')
OddsString(totalOdds) == Replace(IF totalOdds = <<>> THEN <<"0">> ELSE totalOdds, ",", ".")

ParseOdds(totalOdds) == ParseFloat(OddsString(totalOdds))

\* Odds strings of the feed runs (Spec), and those of SpecOdds: every string of
\* OddsChars up to MaxOddsLen characters as well.
OddsInputs == { <<"2", ",", "5", "0">>, <<"a", "b", "c">> }

OddsChars == {"2", "5", ",", ".", "-", "a"}

OddsStrings == OddsInputs \cup UNION {[1..n -> OddsChars] : n \in 0..MaxOddsLen}

AddPostChecksOddsOnly(user, totalOdds) ==
    IF ParseOdds(totalOdds).nan THEN "Invalid odds value" ELSE "none"

\* What the try block of addPost / addNews throws before the insert, if anything.
AddPostChecks(user, totalOdds) ==
    IF user = NoUser THEN "User not authenticated"
    ELSE IF ParseOdds(totalOdds).nan THEN "Invalid odds value"
    ELSE "none"

AddNewsChecks(user) == IF user = NoUser THEN "User not authenticated" ELSE "none"

\* if (error) throw error; the catch block logs it and throws it again.
InsertThrown(error) == IF error THEN "insert failed" ELSE "none"

PostsAfterInsertAlways(error, data, prev) == <<data>> \o prev

\* if (error) throw error; if (data) setPosts(prev => [data, ...prev])
PostsAfterInsert(error, data, prev) == IF error THEN prev ELSE <<data>> \o prev

\* The row the insert returns: a fresh id, created_at = now().
Created(kind, tableA, tableB) ==
    Row(MaxOf(Ids(tableA) \cup Ids(tableB)) + 1, kind,
        MaxOf(Times(tableA) \cup Times(tableB)) + 1)

\* ---------------------------------------------------------------- Init
\* No feed item is rendered.
NoItem ==
    /\ post = [id |-> 0, title |-> NoTitle, likes |-> 0, isLiked |-> FALSE]
    /\ authUser = NoUser
    /\ localPost = [likes |-> 0, isLiked |-> FALSE]
    /\ shown = [likes |-> 0, isLiked |-> FALSE]
    /\ liking = <<>>
    /\ taps = <<>>

\* No news row and no like record.
NoServer ==
    /\ news = <<>>
    /\ news_likes = EmptyBag
    /\ sqlstate = "none"

InitWith(postCounts, newsCounts) ==
    /\ posts = <<>>
    /\ loading = FALSE
    /\ hasMore = TRUE
    /\ page = 0
    /\ view = [posts |-> <<>>, loading |-> FALSE, hasMore |-> TRUE, page |-> 0]
    /\ fetching = <<>>
    /\ adding = <<>>
    /\ \E n \in postCounts : dbPosts = InitialTable("post", 0, n)
    /\ \E n \in newsCounts, b \in NewsIdBases : dbNews = InitialTable("news", b, n)
    /\ created = {}
    /\ thrown = "none"
    /\ NoItem
    /\ NoServer

Init == InitWith(PostCounts, NewsCounts)

\* ---------------------------------------------------------------- render
\* React re-renders PostProvider after state updates; from then on the consumer
\* calls the fetchMorePosts closure of the new render.
Render ==
    /\ view # [posts |-> posts, loading |-> loading, hasMore |-> hasMore, page |-> page]
    /\ view' = [posts |-> posts, loading |-> loading, hasMore |-> hasMore, page |-> page]
    /\ thrown' = "none"
    /\ UNCHANGED <<posts, loading, hasMore, page, fetching, adding, remote, item, server>>

\* ---------------------------------------------------------------- fetchMorePosts
\* if (loading || !hasMore) return;
Skipped(v) == v.loading \/ ~v.hasMore

\* The call up to its await: the guard, setLoading(true), the two queries issued
\* for the page and against the posts the closure holds.
FetchMorePosts ==
    /\ IF Skipped(view)
       THEN UNCHANGED <<loading, fetching>>
       ELSE /\ page + Len(fetching) < MaxFetches
            /\ loading' = TRUE
            /\ fetching' = Append(fetching, [page |-> view.page, posts |-> view.posts])
    /\ thrown' = "none"
    /\ UNCHANGED <<posts, hasMore, page, view, adding, remote, item, server>>

Responses == {"ok", "postsError", "newsError"}

QueryFailedPostsOnly(resp) == resp = "postsError"

\* if (postsResponse.error) throw ...; if (newsResponse.error) throw ...
QueryFailed(resp) == resp \in {"postsError", "newsError"}

LoadingAfterFetchTryOnly(resp, cur) == IF QueryFailed(resp) THEN cur ELSE FALSE

\* finally { setLoading(false) }
LoadingAfterFetch(resp, cur) == FALSE

\* The continuation after Promise.all: resp says which response carries an
\* error.  The catch block logs and swallows; finally clears loading.
FetchResolved(i, resp) ==
    /\ i \in 1..Len(fetching)
    /\ LET f == fetching[i]
           allContent == SortDesc(Query(dbPosts, f.page) \o Query(dbNews, f.page))
           uniqueContent == UniqueContent(allContent, f.posts)
       IN  IF QueryFailed(resp)
           THEN UNCHANGED <<posts, hasMore, page>>
           ELSE /\ posts' = posts \o uniqueContent
                /\ hasMore' = HasMoreAfter(Len(uniqueContent))
                /\ page' = page + 1
    /\ loading' = LoadingAfterFetch(resp, loading)
    /\ fetching' = RemoveAt(fetching, i)
    /\ thrown' = "none"
    /\ UNCHANGED <<view, adding, remote, item, server>>

\* ---------------------------------------------------------------- addPost, addNews
\* The call up to its first await: supabase.auth.getUser() is asked.
AddPost(totalOdds) ==
    /\ Cardinality(created) + Len(adding) < MaxInserts
    /\ adding' = Append(adding, [op |-> "addPost", stage |-> "getUser", totalOdds |-> totalOdds,
                                 odds |-> NaN])
    /\ thrown' = "none"
    /\ UNCHANGED <<posts, loading, hasMore, page, view, fetching, remote, item, server>>

AddNews ==
    /\ Cardinality(created) + Len(adding) < MaxInserts
    /\ adding' = Append(adding, [op |-> "addNews", stage |-> "getUser", totalOdds |-> <<>>,
                                 odds |-> NaN])
    /\ thrown' = "none"
    /\ UNCHANGED <<posts, loading, hasMore, page, view, fetching, remote, item, server>>

\* getUser has answered: the checks, then either the throw (logged and thrown
\* again by the catch block) or the insert request with the parsed odds.
AddPostGotUser(i, user) ==
    /\ i \in 1..Len(adding)
    /\ adding[i].op = "addPost" /\ adding[i].stage = "getUser"
    /\ thrown' = AddPostChecks(user, adding[i].totalOdds)
    /\ adding' = IF thrown' # "none"
                 THEN RemoveAt(adding, i)
                 ELSE [adding EXCEPT ![i].stage = "insert",
                                     ![i].odds = ParseOdds(adding[i].totalOdds)]
    /\ UNCHANGED <<posts, loading, hasMore, page, view, fetching, remote, item, server>>

AddNewsGotUser(i, user) ==
    /\ i \in 1..Len(adding)
    /\ adding[i].op = "addNews" /\ adding[i].stage = "getUser"
    /\ thrown' = AddNewsChecks(user)
    /\ adding' = IF thrown' # "none"
                 THEN RemoveAt(adding, i)
                 ELSE [adding EXCEPT ![i].stage = "insert"]
    /\ UNCHANGED <<posts, loading, hasMore, page, view, fetching, remote, item, server>>

\* The insert has answered, with the new row or with an error.
AddPostInserted(i, error) ==
    /\ i \in 1..Len(adding)
    /\ adding[i].op = "addPost" /\ adding[i].stage = "insert"
    /\ LET data == Created("post", dbPosts, dbNews)
       IN  /\ dbPosts' = IF error THEN dbPosts ELSE <<data>> \o dbPosts
           /\ created' = IF error THEN created ELSE created \cup {data.id}
           /\ posts' = PostsAfterInsert(error, data, posts)
    /\ adding' = RemoveAt(adding, i)
    /\ thrown' = InsertThrown(error)
    /\ UNCHANGED <<loading, hasMore, page, view, fetching, dbNews, item, server>>

AddNewsInserted(i, error) ==
    /\ i \in 1..Len(adding)
    /\ adding[i].op = "addNews" /\ adding[i].stage = "insert"
    /\ LET data == Created("news", dbNews, dbPosts)
       IN  /\ dbNews' = IF error THEN dbNews ELSE <<data>> \o dbNews
           /\ created' = IF error THEN created ELSE created \cup {data.id}
           /\ posts' = PostsAfterInsert(error, data, posts)
    /\ adding' = RemoveAt(adding, i)
    /\ thrown' = InsertThrown(error)
    /\ UNCHANGED <<loading, hasMore, page, view, fetching, dbPosts, item, server>>

Next ==
    \/ Render
    \/ FetchMorePosts
    \/ \E i \in 1..MaxFetches, resp \in Responses : FetchResolved(i, resp)
    \/ \E totalOdds \in OddsInputs : AddPost(totalOdds)
    \/ AddNews
    \/ \E i \in 1..MaxInserts, user \in Users : AddPostGotUser(i, user)
    \/ \E i \in 1..MaxInserts, user \in Users : AddNewsGotUser(i, user)
    \/ \E i \in 1..MaxInserts, error \in BOOLEAN : AddPostInserted(i, error)
    \/ \E i \in 1..MaxInserts, error \in BOOLEAN : AddNewsInserted(i, error)

Spec == Init /\ [][Next]_vars

\* The two queries of every invocation in flight are answered, with rows or
\* with an error.
FetchAnswered == \E i \in 1..MaxFetches, resp \in Responses : FetchResolved(i, resp)

\* The feed over one table of posts, empty or of a page and a part.
InitLive == InitWith({0, 25}, {0})

SpecLive == InitLive /\ [][Next]_vars /\ WF_vars(FetchAnswered)

\* Every odds string of OddsStrings goes through addPost, one submission at a
\* time, against tables that hold one prediction.
InitOdds == InitWith({1}, {0})

NextOdds ==
    \/ \E totalOdds \in OddsStrings : adding = <<>> /\ AddPost(totalOdds)
    \/ \E i \in 1..MaxInserts, user \in Users : AddPostGotUser(i, user)
    \/ \E i \in 1..MaxInserts, error \in BOOLEAN : AddPostInserted(i, error)

SpecOdds == InitOdds /\ [][NextOdds]_vars

\* ================================================================ Post component
\* src/src/components/Post.tsx: one rendered feed item and its like button.
\* handleLike is created by each render and reads localPost of that render
\* (shown); setLocalPost(prev => ...) acts on the current localPost.
MaxTaps == 2        \* handleLike invocations by a signed-in user during a run

Titles == {NoTitle, "", "Mercato"}
LikesCounts == {0, 3}

\* No feed is loaded.
NoFeed ==
    /\ posts = <<>>
    /\ loading = FALSE
    /\ hasMore = TRUE
    /\ page = 0
    /\ view = [posts |-> <<>>, loading |-> FALSE, hasMore |-> TRUE, page |-> 0]
    /\ fetching = <<>>
    /\ adding = <<>>
    /\ dbPosts = <<>>
    /\ dbNews = <<>>
    /\ created = {}

\* useState(post): the component starts from its prop; isLiked absent reads as false.
InitPost ==
    /\ NoFeed
    /\ NoServer
    /\ thrown = "none"
    /\ \E t \in Titles, n \in LikesCounts, l \in BOOLEAN :
           post = [id |-> 1, title |-> t, likes |-> n, isLiked |-> l]
    /\ authUser \in Users
    /\ localPost = [likes |-> post.likes, isLiked |-> post.isLiked]
    /\ shown = localPost
    /\ liking = <<>>
    /\ taps = <<>>

\* React renders the component again: the next handleLike reads the current localPost.
RenderPost ==
    /\ shown # localPost
    /\ shown' = localPost
    /\ thrown' = "none"
    /\ UNCHANGED <<post, authUser, localPost, liking, taps, feed, server>>

\* post.title ? ... : ... ; an absent and an empty title are both falsy
Truthy(title) == title \notin {NoTitle, ""}

LikeTable(title) == IF Truthy(title) THEN "news_likes" ELSE "post_likes"

LikeIdField(title) == IF Truthy(title) THEN "news_id" ELSE "post_id"

LikeOpInverted(isLiked) == IF isLiked THEN "insert" ELSE "delete"

\* if (localPost.isLiked) delete ... else insert ...
LikeOp(isLiked) == IF isLiked THEN "delete" ELSE "insert"

\* The request handleLike sends: .delete().eq(idField, id).eq('user_id', user.id)
\* or .insert([{ [idField]: id, user_id: user.id }]).
LikeRequest(p, rendered, u) ==
    [op |-> LikeOp(rendered.isLiked), table |-> LikeTable(p.title),
     idField |-> LikeIdField(p.title), id |-> p.id, user_id |-> u]

\* The call up to its await.
HandleLike ==
    /\ IF authUser = NoUser
       THEN UNCHANGED <<liking, taps>>
       ELSE /\ Len(taps) < MaxTaps
            /\ liking' = Append(liking, [request |-> LikeRequest(post, shown, authUser),
                                         tap |-> Len(taps) + 1])
            /\ taps' = Append(taps, [before |-> localPost, outcome |-> "pending",
                                     after |-> localPost])
    /\ thrown' = "none"
    /\ UNCHANGED <<post, authUser, localPost, shown, feed, server>>

\* The awaited request resolves without an error, resolves with an error in its
\* result, or rejects.
Outcomes == {"ok", "error", "rejected"}

LikeAppliedOkOnly(outcome) == outcome = "ok"

\* The result of the await is not read; a rejection goes to the catch block.
LikeApplied(outcome) == outcome # "rejected"

\* setLocalPost(prev => ({ ...prev, likes: prev.likes -/+ 1, isLiked: false/true }))
LocalAfter(op, prev) ==
    IF op = "delete"
    THEN [prev EXCEPT !.likes = prev.likes - 1, !.isLiked = FALSE]
    ELSE [prev EXCEPT !.likes = prev.likes + 1, !.isLiked = TRUE]

\* The continuation after the await; the catch block logs and swallows.
LikeResolved(i, outcome) ==
    /\ i \in 1..Len(liking)
    /\ localPost' = IF LikeApplied(outcome)
                    THEN LocalAfter(liking[i].request.op, localPost)
                    ELSE localPost
    /\ liking' = RemoveAt(liking, i)
    /\ taps' = [taps EXCEPT ![liking[i].tap] = [@ EXCEPT !.outcome = outcome,
                                                         !.after = localPost']]
    /\ thrown' = "none"
    /\ UNCHANGED <<post, authUser, shown, feed, server>>

NextPost ==
    \/ RenderPost
    \/ HandleLike
    \/ \E i \in 1..MaxTaps, outcome \in Outcomes : LikeResolved(i, outcome)

SpecPost == InitPost /\ [][NextPost]_vars

\* ================================================================ news_likes
\* src/unnamed/part_000: the tables news and news_likes, the row-level-security
\* policies of news_likes and the trigger that keeps news.likes.  A statement
\* and the trigger calls it causes are one transaction, hence one step.
MaxNews == 2        \* news ids
MaxUsers == 3       \* user ids

NewsIds == 1..MaxNews
UserIds == 1..MaxUsers

\* auth.uid() of a request that carries no session
Anon == 0

Like(n, u) == [news_id |-> n, user_id |-> u]

update_news_likes_count_insert_only(TG_OP, row, tbl) ==
    IF TG_OP = "INSERT" THEN [tbl EXCEPT ![row.news_id] = @ + 1] ELSE tbl

\* IF TG_OP = 'INSERT' THEN UPDATE news SET likes = likes + 1 WHERE id = NEW.news_id;
\* ELSIF TG_OP = 'DELETE' THEN UPDATE news SET likes = likes - 1 WHERE id = OLD.news_id;
update_news_likes_count(TG_OP, row, tbl) ==
    IF TG_OP = "INSERT" THEN [tbl EXCEPT ![row.news_id] = @ + 1]
    ELSE IF TG_OP = "DELETE" THEN [tbl EXCEPT ![row.news_id] = @ - 1]
    ELSE tbl

\* AFTER INSERT OR DELETE ON news_likes FOR EACH ROW: once per row of the statement.
RECURSIVE news_likes_count_update(_, _, _, _)
news_likes_count_update(TG_OP, row, k, tbl) ==
    IF k = 0 THEN tbl
    ELSE news_likes_count_update(TG_OP, row, k - 1, update_news_likes_count(TG_OP, row, tbl))

\* The tables right after the migration: no row.
InitSql ==
    /\ NoFeed
    /\ NoItem
    /\ thrown = "none"
    /\ NoServer

\* INSERT INTO news: likes integer DEFAULT 0.
InsertNews(n) ==
    /\ n \notin DOMAIN news
    /\ news' = [m \in DOMAIN news \cup {n} |-> IF m = n THEN 0 ELSE news[m]]
    /\ sqlstate' = "00000"
    /\ UNCHANGED <<news_likes, feed, thrown, item>>

\* INSERT INTO news_likes (news_id, user_id) VALUES (n, u) by a request whose
\* auth.uid() is uid: the policy "Users can like news", the primary key and
\* the reference to news decide whether the row goes in.
InsertLike(uid, n, u) ==
    /\ IF uid # u
       THEN sqlstate' = "42501" /\ UNCHANGED <<news, news_likes>>
       ELSE IF BagIn(Like(n, u), news_likes)
       THEN sqlstate' = "23505" /\ UNCHANGED <<news, news_likes>>
       ELSE IF n \notin DOMAIN news
       THEN sqlstate' = "23503" /\ UNCHANGED <<news, news_likes>>
       ELSE /\ news_likes' = news_likes (+) SetToBag({Like(n, u)})
            /\ news' = news_likes_count_update("INSERT", Like(n, u), 1, news)
            /\ sqlstate' = "00000"
    /\ UNCHANGED <<feed, thrown, item>>

\* DELETE FROM news_likes WHERE news_id = n AND user_id = u by a request whose
\* auth.uid() is uid: the policy "Users can unlike news" leaves it the rows of
\* uid only; a statement that finds no row succeeds.
DeleteLike(uid, n, u) ==
    /\ IF uid = u /\ BagIn(Like(n, u), news_likes)
       THEN /\ news_likes' = [r \in DOMAIN news_likes \ {Like(n, u)} |-> news_likes[r]]
            /\ news' = news_likes_count_update("DELETE", Like(n, u),
                                                CopiesIn(Like(n, u), news_likes), news)
       ELSE UNCHANGED <<news, news_likes>>
    /\ sqlstate' = "00000"
    /\ UNCHANGED <<feed, thrown, item>>

NextSql ==
    \/ \E n \in NewsIds : InsertNews(n)
    \/ \E uid \in UserIds \cup {Anon}, n \in NewsIds, u \in UserIds : InsertLike(uid, n, u)
    \/ \E uid \in UserIds \cup {Anon}, n \in NewsIds, u \in UserIds : DeleteLike(uid, n, u)

SpecSql == InitSql /\ [][NextSql]_vars

\* ================================================================ claims
\* Steps as the store shows them.  setPage is called by a successful
\* fetchMorePosts only.
FetchSucceeded == page' = page + 1

\* A create was called: its invocation is the last of adding'.
CreateCalled ==
    /\ Len(adding') = Len(adding) + 1
    /\ \/ AddNews
       \/ AddPost(adding'[Len(adding')].totalOdds)

InsertRequests(a) == Len(SelectSeq(a, LAMBDA r : r.stage = "insert"))

Count(i, s) == Len(SelectSeq(s, LAMBDA r : r.id = i))

\* v is the number n / d.
IsNumber(v, n, d) == ~v.nan /\ v.num * d = n * v.den

\* C1: after any sequence of fetchMorePosts calls the held posts never contain
\* two items with the same id, also when a prediction and a news row share one.
C1_NoDuplicateIds == Cardinality(Ids(posts)) = Len(posts)

\* C2: a fetchMorePosts call made while an earlier invocation is still in
\* flight is a no-op: no query is issued and posts, loading, hasMore and page
\* stay as they are, so at most one invocation is in flight.
C2_CallWhileInFlightIsNoop ==
    [][(Len(fetching) > 0 /\ FetchMorePosts)
         => UNCHANGED <<posts, loading, hasMore, page, fetching>>]_vars

\* C3: a fetchMorePosts call made after hasMore became false is a no-op.
C3_CallAfterExhaustedIsNoop ==
    [][(~hasMore /\ FetchMorePosts)
         => UNCHANGED <<posts, loading, hasMore, page, fetching>>]_vars

\* C4: a successful fetchMorePosts leaves hasMore false exactly when it
\* produced fewer than 20 newly-unique items, so 25 of them leave it true.
C4_HasMoreFalseIffBelowPage ==
    [][FetchSucceeded => (~hasMore' <=> Len(posts') - Len(posts) < POSTS_PER_PAGE)]_vars

\* C5: after a successful fetchMorePosts, hasMore is true iff the call produced
\* exactly POSTS_PER_PAGE newly-unique items.
C5_HasMoreIffExactlyPage ==
    [][FetchSucceeded => (hasMore' <=> Len(posts') - Len(posts) = POSTS_PER_PAGE)]_vars

\* C5 witness: a first fetch has produced 25 items and hasMore is false.
C5_Witness == page = 1 /\ Len(posts) = 25 /\ ~hasMore /\ created = {}

\* C6: a successful addPost / addNews prepends exactly the returned row and
\* keeps the held items in order, and the created item is held exactly once,
\* also after a fetchMorePosts that was pending at the create has completed.
C6_CreatedHeldOnceAtFront ==
    [][/\ (\E i \in 1..MaxInserts : AddPostInserted(i, FALSE) \/ AddNewsInserted(i, FALSE))
            => /\ Len(posts') = Len(posts) + 1
               /\ Tail(posts') = posts
               /\ Head(posts').id \in created' \ created
       /\ \A c \in created' : Count(c, posts') = 1]_vars

\* C7: when either query of a fetchMorePosts call fails, posts, hasMore and
\* page stay as they were, loading is cleared and nothing is thrown to the caller.
C7_FailedFetchKeepsState ==
    [][/\ FetchMorePosts => UNCHANGED <<posts, hasMore, page>> /\ thrown' = "none"
       /\ \A i \in 1..MaxFetches, resp \in {"postsError", "newsError"} :
            FetchResolved(i, resp)
              => UNCHANGED <<posts, hasMore, page>> /\ loading' = FALSE /\ thrown' = "none"]_vars

\* C7 witness: a fetch was started (the render in use saw loading), every fetch
\* has ended, and no fetch succeeded.
C7_Witness == view.loading /\ ~loading /\ fetching = <<>> /\ page = 0 /\ posts = <<>>

\* C8: addPost / addNews without an authenticated user throw the authentication
\* error, issue no insert and leave posts, loading, hasMore and page unchanged.
C8_NoUserThrowsAndKeepsState ==
    [][/\ CreateCalled
            => /\ InsertRequests(adding') = InsertRequests(adding)
               /\ UNCHANGED <<posts, loading, hasMore, page, dbPosts, dbNews>>
       /\ \A i \in 1..MaxInserts :
            (AddPostGotUser(i, NoUser) \/ AddNewsGotUser(i, NoUser))
              => /\ thrown' = "User not authenticated"
                 /\ InsertRequests(adding') = InsertRequests(adding)
                 /\ UNCHANGED <<posts, loading, hasMore, page, dbPosts, dbNews>>]_vars

\* C8 witness: a create has just thrown the authentication error.
C8_Witness == thrown = "User not authenticated" /\ adding = <<>>

\* C9: addPost turns a comma separator into a period before parsing ("2,50" is
\* inserted as 2.5, "d,e" as d.e), and an odds string whose parsed value is not a
\* number (one without a digit where the number must start, such as "abc")
\* throws the invalid-odds error, issues no insert and leaves posts unchanged.
C9_OddsParsedOrRejected ==
    [][\A i \in 1..MaxInserts :
         AddPostGotUser(i, "u1")
           => LET s == adding[i].totalOdds
              IN  /\ s = <<"2", ",", "5", "0">>
                       => /\ thrown' = "none"
                          /\ adding'[i].stage = "insert"
                          /\ IsNumber(adding'[i].odds, 5, 2)
                  /\ \A d \in Digits, e \in Digits :
                       s = <<d, ",", e>>
                         => /\ thrown' = "none"
                            /\ adding'[i].stage = "insert"
                            /\ IsNumber(adding'[i].odds, 10 * DigitVal(d) + DigitVal(e), 10)
                  /\ (s # <<>> /\ s[1] \notin Digits \cup {",", ".", "-", "+", " "})
                       => thrown' = "Invalid odds value"
                  /\ ParseFloat(OddsString(s)).nan
                       => /\ thrown' = "Invalid odds value"
                          /\ InsertRequests(adding') = InsertRequests(adding)
                          /\ UNCHANGED <<posts, dbPosts, dbNews>>]_vars

\* C9 witness: the insert for "2,50" is in flight with odds 2.5.
C9_Witness ==
    \E i \in 1..Len(adding) :
        /\ adding[i].totalOdds = <<"2", ",", "5", "0">>
        /\ adding[i].stage = "insert"
        /\ IsNumber(adding[i].odds, 5, 2)

\* C10: when the insert of addPost / addNews fails, the error is thrown to the
\* caller and posts, loading, hasMore and page are what they were: nothing is
\* prepended.
C10_FailedInsertKeepsState ==
    [][/\ CreateCalled => UNCHANGED <<posts, loading, hasMore, page>>
       /\ \A i \in 1..MaxInserts :
            (\E user \in Users : AddPostGotUser(i, user) \/ AddNewsGotUser(i, user))
              => UNCHANGED <<posts, loading, hasMore, page>>
       /\ \A i \in 1..MaxInserts :
            (AddPostInserted(i, TRUE) \/ AddNewsInserted(i, TRUE))
              => /\ thrown' = "insert failed"
                 /\ UNCHANGED <<posts, loading, hasMore, page, dbPosts, dbNews>>]_vars

\* C10 witness: an insert has just failed.
C10_Witness == thrown = "insert failed"

\* C11: a fetchMorePosts call that set loading to true sets it back to false
\* once its queries have answered, with rows or with an error: loading does not
\* stay true for ever.
C11_LoadingCleared == loading ~> ~loading

\* C11 witness: a fetch set loading, succeeded and cleared it.
C11_Witness == view.loading /\ ~loading /\ fetching = <<>> /\ page = 1

\* C13: the held list is in reverse-chronological order, newest first, after
\* any sequence of fetchMorePosts, addPost and addNews.
C13_NewestFirst ==
    \A j \in 1..(Len(posts) - 1) : posts[j].created_at >= posts[j + 1].created_at

\* The invocation of fetchMorePosts that a step completes.
Completes(i) == i \in 1..Len(fetching) /\ fetching' = RemoveAt(fetching, i)

\* C14: a successful fetch keeps the held list as a prefix and appends, newest
\* first, exactly the returned rows whose id is not held, and page goes up by one.
C14_AppendsRowsNotHeld ==
    [][FetchSucceeded =>
        \E i \in 1..Len(fetching) :
            /\ Completes(i)
            /\ posts' = posts \o UniqueContent(
                   SortDesc(Query(dbPosts, fetching[i].page) \o Query(dbNews, fetching[i].page)),
                   posts)
            /\ page' = page + 1]_vars

\* C17: however fetchMorePosts interleaves with addPost and addNews, no two
\* positions of the held list carry the same id.
C17_NoTwoPositionsShareId ==
    \A j, k \in 1..Len(posts) : posts[j].id = posts[k].id => j = k

\* C18: every successful fetch asked for the page the counter stands at, so the
\* successes request the offsets 0, 20, 40, ... one after the other, none
\* skipped and none fetched twice.
C18_SuccessFetchedCurrentPage ==
    [][FetchSucceeded => \E i \in 1..Len(fetching) : Completes(i) /\ fetching[i].page = page]_vars

\* C12: after two like activations in a row by a signed-in user have both
\* completed, the local counter and flag are what they were before the first.
C12_TwiceRestores ==
    (liking = <<>> /\ Len(taps) >= 2) => localPost = taps[Len(taps) - 1].before

\* C19: whatever activations were made, overlapping or not, the local counter
\* is the initial one plus one if liked now minus one if liked initially.
C19_CounterFollowsFlag ==
    localPost.likes = post.likes + (IF localPost.isLiked THEN 1 ELSE 0)
                                 - (IF post.isLiked THEN 1 ELSE 0)

C16_FailedLikeStillApplied ==
    [][\A i \in 1..Len(liking), outcome \in {"error", "rejected"} :
            LikeResolved(i, outcome) =>
                /\ localPost' = LocalAfter(liking[i].request.op, localPost)
                /\ thrown' = "none"]_vars

\* C16 amended: a request that resolves with an error in its result changes the
\* local counter and flag like a successful one; a request that rejects leaves
\* them as they are; no other step touches them (nothing is rolled back) and
\* nothing is thrown to the caller.
C16_FailedLikeAppliedUnlessRejected ==
    [][/\ \A i \in 1..Len(liking) :
            /\ LikeResolved(i, "error") =>
                   /\ localPost' = LocalAfter(liking[i].request.op, localPost)
                   /\ localPost' # localPost
                   /\ thrown' = "none"
            /\ LikeResolved(i, "rejected") => UNCHANGED localPost /\ thrown' = "none"
       /\ Len(liking') >= Len(liking) => UNCHANGED localPost]_vars

\* C16 witness: one request rejected and left the local state alone, another
\* resolved with an error and changed it.
C16_Witness ==
    \E j, k \in 1..Len(taps) :
        /\ taps[j].outcome = "rejected" /\ taps[j].after = taps[j].before
        /\ taps[k].outcome = "error" /\ taps[k].after # taps[k].before

\* Rows of news_likes that carry the news id n.
LikesOf(n) == Cardinality({r \in DOMAIN news_likes : r.news_id = n})

\* C20: for every news row, created with likes = 0, the likes column is the
\* number of news_likes rows of that news id after any inserts and deletes on
\* news_likes; no (news, user) pair has more than one row; an insert of a pair
\* that has a row is rejected and changes neither the rows nor the counter.
C20_LikesIsRowCount ==
    /\ [](/\ \A r \in DOMAIN news_likes : CopiesIn(r, news_likes) = 1
          /\ \A n \in DOMAIN news : news[n] = LikesOf(n))
    /\ [][\A n \in NewsIds, u \in UserIds :
            (BagIn(Like(n, u), news_likes) /\ InsertLike(u, n, u))
                => sqlstate' = "23505" /\ UNCHANGED <<news, news_likes>>]_vars

\* C20 witness: a news item holds the likes of two users, counted as two, and
\* a repeated like has just been rejected.
C20_Witness ==
    /\ sqlstate = "23505"
    /\ \E n \in DOMAIN news : news[n] = 2 /\ LikesOf(n) = 2
====
